---- MODULE Spec2Model ----
(***************************************************************************)
(* The Ceph RBD block-device adapter of lib/bdev/rbd/blockdev_rbd.c:       *)
(* submission of reads and writes to librbd, the completion callback that  *)
(* runs on librbd's threads, the per-channel inbox (req_head under         *)
(* ch->lock), the poller that drains it on the channel's owning core, the  *)
(* opening and the destroying of a backend connection, and the creation of *)
(* the devices of the configuration by blockdev_rbd_library_init.          *)
(***************************************************************************)
EXTENDS Integers, Sequences, FiniteSets, TLC

(***************************************************************************)
(* Bounds of the model.                                                    *)
(***************************************************************************)
\* Number of bdev_io requests the framework submits on the channel.
NumReqs == 2

\* Number of backend connections opened one after the other.
MaxOpens == 2

\* Number of entries the "Ceph" section of the configuration may have.
NumEntries == 2

\* block_size = 512, the default of blockdev_rbd_library_init.
DefaultBlockSize == 512

Reqs == 1..NumReqs

\* The null pointer of req_head, cmd->next and the poller's req.
NULL == 0

(***************************************************************************)
(* size_t values.  A size_t is 64 bits wide; it is written as four 16-bit  *)
(* limbs, most significant first, so that the conversion (int)cmd->len     *)
(* keeps its width.                                                        *)
(***************************************************************************)
LimbBase == 2^16

SizeT(w3, w2, w1, w0) == <<w3, w2, w1, w0>>

\* 4096, 2^32 - 1 and 2^32 + 4096 as size_t.
Len4K == SizeT(0, 0, 0, 4096)

LenMax32 == SizeT(0, 0, LimbBase - 1, LimbBase - 1)

Len4GPlus4K == SizeT(0, 1, 0, 4096)

Len512 == SizeT(0, 0, 0, 512)

\* (int)len: the low 32 bits of len read as a two's-complement int.
CastInt(len) ==
    IF len[3] >= LimbBase \div 2
    THEN (len[3] - LimbBase) * LimbBase + len[4]
    ELSE len[3] * LimbBase + len[4]

\* The mathematical comparison of a returned count with a size_t length.
EqualsLength(ret, len) ==
    /\ ret >= 0
    /\ len = SizeT(0, 0, ret \div LimbBase, ret % LimbBase)

(***************************************************************************)
(* Inputs.                                                                 *)
(***************************************************************************)
\* enum spdk_bdev_io_type values the framework may submit.
IoTypes == {"READ", "WRITE", "UNMAP", "FLUSH", "RESET"}

\* Lengths of submitted reads (bdev_io->u.read.nbytes).
ReadLens == {Len4K, LenMax32, Len4GPlus4K}

\* Writes: iovcnt, iovs[0].iov_len and u.write.len.
WriteShapes ==
    { [iovcnt |-> c, iov_len |-> l[1], len |-> l[2]] :
        c \in {1, 2}, l \in {<<Len4K, Len4K>>, <<Len512, Len4K>>} }

\* Values rbd_aio_get_return_value hands to the callback's int status.
AioReturns == {-1, 0, 4096}

\* Return values of rbd_aio_create_completion and rbd_aio_read/write.
CallReturns == {-1, 0}

NoParams == [nbytes |-> SizeT(0, 0, 0, 0), iovcnt |-> 0,
             iov_len |-> SizeT(0, 0, 0, 0), len |-> SizeT(0, 0, 0, 0)]

NoIo == [type |-> "NONE", params |-> NoParams]

\* struct blockdev_rbd_io as the framework hands it over: no field written.
FreshCmd == [init |-> {}, direction |-> "READ", status |-> 0,
             len |-> SizeT(0, 0, 0, 0), next |-> NULL]

VARIABLES
    io,           \* io[r]: the bdev_io (type and parameters) of request r
    phase,        \* phase[r]: "free", "queued", "inflight", "completed", "reclaimed"
    cmd,          \* cmd[r]: the driver context (struct blockdev_rbd_io) of r
    comp,         \* comp[r]: rbd completion objects created / released for r,
                  \*          and which backend call of the submission failed
    aio_calls,    \* aio_calls[r]: calls of rbd_aio_read / rbd_aio_write for r
    aio_ret,      \* aio_ret[r]: value rbd_aio_get_return_value gave, if any
    cbpc,         \* cbpc[r]: position of blockdev_rbd_finish_aiocb for r
    req_head,     \* ch->req_head
    lock,         \* ch->lock: "free", or held by "poller" or by a "callback"
    pollpc,       \* position of blockdev_rbd_io_poll
    req,          \* the poller's local req
    completions,  \* completions[r]: calls of spdk_bdev_io_complete for r
    conn,         \* conn[k]: the k-th opening of a backend connection
    lib           \* the bdev module: configuration, g_rbds, g_rbd_pools, heap

ioVars == <<io, phase, cmd, comp, aio_calls, aio_ret, cbpc, req_head, lock,
            pollpc, req, completions>>

vars == <<io, phase, cmd, comp, aio_calls, aio_ret, cbpc, req_head, lock,
          pollpc, req, completions, conn, lib>>

IoInit ==
    /\ io = [r \in Reqs |-> NoIo]
    /\ phase = [r \in Reqs |-> "free"]
    /\ cmd = [r \in Reqs |-> FreshCmd]
    /\ comp = [r \in Reqs |-> [created |-> 0, released |-> 0, failed |-> "none"]]
    /\ aio_calls = [r \in Reqs |-> 0]
    /\ aio_ret = [r \in Reqs |-> <<>>]
    /\ cbpc = [r \in Reqs |-> "none"]
    /\ req_head = NULL
    /\ lock = "free"
    /\ pollpc = "idle"
    /\ req = NULL
    /\ completions = [r \in Reqs |-> <<>>]

(***************************************************************************)
(* The framework's side.                                                   *)
(***************************************************************************)
\* The owning core runs one thing at a time: a submission or the poller.
OwnerBusy == \E r \in Reqs : phase[r] \in {"queued", "completed"}

OwnerIdle == pollpc = "idle" /\ ~OwnerBusy

\* spdk_bdev_io_complete(bdev_io, status) called from `by' on `thread'.
Complete(r, status, by, thread) ==
    /\ completions' = [completions EXCEPT ![r] =
                         Append(@, [status |-> status, by |-> by, thread |-> thread])]
    /\ phase' = [phase EXCEPT ![r] = "completed"]

\* The framework takes the completed bdev_io back, before the owning core
\* does anything else: the request and its driver context are gone.
Reclaim(r) ==
    /\ phase[r] = "completed"
    /\ phase' = [phase EXCEPT ![r] = "reclaimed"]
    /\ io' = [io EXCEPT ![r] = NoIo]
    /\ cmd' = [cmd EXCEPT ![r] = FreshCmd]
    /\ aio_ret' = [aio_ret EXCEPT ![r] = <<>>]
    /\ UNCHANGED <<comp, aio_calls, cbpc, req_head, lock, pollpc, req,
                   completions, conn, lib>>

\* The framework builds a bdev_io and is about to call submit_request.
NewIo(r) ==
    /\ OwnerIdle
    /\ phase[r] = "free"
    /\ \A q \in Reqs : q < r => phase[q] # "free"
    /\ \E t \in IoTypes :
         \/ /\ t = "READ"
            /\ \E n \in ReadLens :
                 io' = [io EXCEPT ![r] = [type |-> t, params |-> [NoParams EXCEPT !.nbytes = n]]]
         \/ /\ t = "WRITE"
            /\ \E w \in WriteShapes :
                 io' = [io EXCEPT ![r] = [type |-> t, params |->
                          [NoParams EXCEPT !.iovcnt = w.iovcnt, !.iov_len = w.iov_len, !.len = w.len]]]
         \/ /\ t \notin {"READ", "WRITE"}
            /\ io' = [io EXCEPT ![r] = [type |-> t, params |-> NoParams]]
    /\ phase' = [phase EXCEPT ![r] = "queued"]
    /\ UNCHANGED <<cmd, comp, aio_calls, aio_ret, cbpc, req_head, lock, pollpc,
                   req, completions, conn, lib>>

(***************************************************************************)
(* Submission: blockdev_rbd_submit_request and what it calls.              *)
(***************************************************************************)
\* Variant: the completion object is not released when the call fails to issue.
StartAioLeaksOnIssueFailure(createRet, issueRet) ==
    IF createRet < 0
    THEN [ret |-> -1, created |-> 0, calls |-> 0, released |-> 0]
    ELSE IF issueRet < 0
         THEN [ret |-> -1, created |-> 1, calls |-> 1, released |-> 0]
         ELSE [ret |-> 0, created |-> 1, calls |-> 1, released |-> 0]

\* blockdev_rbd_start_aio: what it returns and what it did to the backend.
blockdev_rbd_start_aio(createRet, issueRet) ==
    IF createRet < 0
    THEN [ret |-> -1, created |-> 0, calls |-> 0, released |-> 0]
    ELSE IF issueRet < 0
         THEN [ret |-> -1, created |-> 1, calls |-> 1, released |-> 1]
         ELSE [ret |-> 0, created |-> 1, calls |-> 1, released |-> 0]

\* Variant: only the segment count is tested.
WritevRejectsCountOnly(iovcnt, iov_len, len) == iovcnt # 1

\* The test at the head of blockdev_rbd_writev.
WritevRejects(iovcnt, iov_len, len) == (iovcnt # 1) \/ (iov_len # len)

\* blockdev_rbd_io_type_supported.
blockdev_rbd_io_type_supported(t) ==
    CASE t = "READ" -> TRUE
      [] t = "WRITE" -> TRUE
      [] OTHER -> FALSE

\* Variant: an operation whose issue failed is still run by the backend.
BackendFailureCreateOnly(createRet, issueRet) ==
    IF createRet < 0 THEN "create" ELSE "none"

\* Which backend call of a submission returned an error, if any.
BackendFailure(createRet, issueRet) ==
    IF createRet < 0 THEN "create" ELSE IF issueRet < 0 THEN "issue" ELSE "none"

\* blockdev_rbd_read / blockdev_rbd_writev from their assignments to cmd on:
\* the fields written, start_aio's effects on the backend, and the backend
\* scheduling the callback for an operation it accepted.
StartAioEffects(r, dir, lenSet, createRet, issueRet) ==
    LET a == blockdev_rbd_start_aio(createRet, issueRet) IN
      /\ cmd' = [cmd EXCEPT ![r] =
                   [@ EXCEPT !.init = @ \cup {"ch", "direction"} \cup (IF lenSet THEN {"len"} ELSE {}),
                             !.direction = dir,
                             !.len = IF lenSet THEN io[r].params.nbytes ELSE @]]
      /\ comp' = [comp EXCEPT ![r] = [created |-> @.created + a.created,
                                       released |-> @.released + a.released,
                                       failed |-> BackendFailure(createRet, issueRet)]]
      /\ aio_calls' = [aio_calls EXCEPT ![r] = @ + a.calls]
      /\ cbpc' = [cbpc EXCEPT ![r] =
                    IF BackendFailure(createRet, issueRet) = "none" THEN "pending" ELSE @]

\* SPDK_BDEV_IO_TYPE_READ: spdk_bdev_io_get_rbuf, blockdev_rbd_get_rbuf_cb,
\* blockdev_rbd_read, blockdev_rbd_start_aio.
SubmitRead(r) ==
    /\ phase[r] = "queued"
    /\ io[r].type = "READ"
    /\ \E createRet \in CallReturns, issueRet \in CallReturns :
         /\ StartAioEffects(r, "READ", TRUE, createRet, issueRet)
         /\ IF blockdev_rbd_start_aio(createRet, issueRet).ret # 0
            THEN Complete(r, "FAILED", "get_rbuf_cb", "owner")
            ELSE /\ phase' = [phase EXCEPT ![r] = "inflight"]
                 /\ UNCHANGED completions
    /\ UNCHANGED <<io, aio_ret, req_head, lock, pollpc, req, conn, lib>>

\* SPDK_BDEV_IO_TYPE_WRITE: blockdev_rbd_writev, blockdev_rbd_start_aio.
SubmitWrite(r) ==
    /\ phase[r] = "queued"
    /\ io[r].type = "WRITE"
    /\ LET p == io[r].params IN
         IF WritevRejects(p.iovcnt, p.iov_len, p.len)
         THEN /\ Complete(r, "FAILED", "submit_request", "owner")
              /\ UNCHANGED <<cmd, comp, aio_calls, cbpc>>
         ELSE \E createRet \in CallReturns, issueRet \in CallReturns :
                /\ StartAioEffects(r, "WRITE", FALSE, createRet, issueRet)
                /\ IF blockdev_rbd_start_aio(createRet, issueRet).ret < 0
                   THEN Complete(r, "FAILED", "submit_request", "owner")
                   ELSE /\ phase' = [phase EXCEPT ![r] = "inflight"]
                        /\ UNCHANGED completions
    /\ UNCHANGED <<io, aio_ret, req_head, lock, pollpc, req, conn, lib>>

\* Variant: the default branch reports the request as taken.
UnsupportedReturnsZero(t) == 0

\* What the default branch of _blockdev_rbd_submit_request returns.
UnsupportedReturn(t) == -1

\* Any other type: the default branch of _blockdev_rbd_submit_request.
SubmitOther(r) ==
    /\ phase[r] = "queued"
    /\ io[r].type \notin {"READ", "WRITE"}
    /\ IF UnsupportedReturn(io[r].type) < 0
       THEN Complete(r, "FAILED", "submit_request", "owner")
       ELSE /\ phase' = [phase EXCEPT ![r] = "inflight"]
            /\ UNCHANGED completions
    /\ UNCHANGED <<io, cmd, comp, aio_calls, aio_ret, cbpc, req_head, lock,
                   pollpc, req, conn, lib>>

(***************************************************************************)
(* The completion callback blockdev_rbd_finish_aiocb, on a librbd thread.  *)
(***************************************************************************)
\* Lines 185-189: the read branch.
ClassifyRead(len, status) == IF CastInt(len) = status THEN 0 ELSE -1

\* Variant: only a negative status fails a write.
ClassifyWriteNegativeOnly(status) == IF status < 0 THEN -1 ELSE 0

\* Lines 190-196: the write branch.
ClassifyWrite(status) == IF status = 0 THEN 0 ELSE -1

\* status = rbd_aio_get_return_value(cb); cmd->status = ...
FinishClassify(r) ==
    /\ cbpc[r] = "pending"
    /\ \E status \in AioReturns :
         /\ aio_ret' = [aio_ret EXCEPT ![r] = <<status>>]
         /\ cmd' = [cmd EXCEPT ![r] =
                      [@ EXCEPT !.init = @ \cup {"status"},
                                !.status = IF cmd[r].direction = "READ"
                                           THEN ClassifyRead(cmd[r].len, status)
                                           ELSE ClassifyWrite(status)]]
    /\ cbpc' = [cbpc EXCEPT ![r] = "release"]
    /\ UNCHANGED <<io, phase, comp, aio_calls, req_head, lock, pollpc, req,
                   completions, conn, lib>>

\* rbd_aio_release(cmd->completion)
FinishRelease(r) ==
    /\ cbpc[r] = "release"
    /\ comp' = [comp EXCEPT ![r].released = @ + 1]
    /\ cbpc' = [cbpc EXCEPT ![r] = "lock"]
    /\ UNCHANGED <<io, phase, cmd, aio_calls, aio_ret, req_head, lock, pollpc,
                   req, completions, conn, lib>>

\* pthread_mutex_lock(&ch->lock)
FinishLock(r) ==
    /\ cbpc[r] = "lock"
    /\ lock = "free"
    /\ lock' = "callback"
    /\ cbpc' = [cbpc EXCEPT ![r] = "link"]
    /\ UNCHANGED <<io, phase, cmd, comp, aio_calls, aio_ret, req_head, pollpc,
                   req, completions, conn, lib>>

\* Variant: the new node is not linked in front of the old list.
FinishLinkDropsList(r) ==
    /\ cbpc[r] = "link"
    /\ cmd' = [cmd EXCEPT ![r] = [@ EXCEPT !.init = @ \cup {"next"}, !.next = NULL]]
    /\ cbpc' = [cbpc EXCEPT ![r] = "push"]
    /\ UNCHANGED <<io, phase, comp, aio_calls, aio_ret, req_head, lock, pollpc,
                   req, completions, conn, lib>>

\* cmd->next = *req_head
FinishLink(r) ==
    /\ cbpc[r] = "link"
    /\ cmd' = [cmd EXCEPT ![r] = [@ EXCEPT !.init = @ \cup {"next"}, !.next = req_head]]
    /\ cbpc' = [cbpc EXCEPT ![r] = "push"]
    /\ UNCHANGED <<io, phase, comp, aio_calls, aio_ret, req_head, lock, pollpc,
                   req, completions, conn, lib>>

\* Variant: the callback completes the request itself instead of queueing it.
FinishPushCompletesDirectly(r) ==
    /\ cbpc[r] = "push"
    /\ Complete(r, IF cmd[r].status = 0 THEN "SUCCESS" ELSE "FAILED",
                "finish_aiocb", "backend")
    /\ cbpc' = [cbpc EXCEPT ![r] = "unlock"]
    /\ UNCHANGED <<io, cmd, comp, aio_calls, aio_ret, req_head, lock, pollpc,
                   req, conn, lib>>

\* *req_head = cmd
FinishPush(r) ==
    /\ cbpc[r] = "push"
    /\ req_head' = r
    /\ cbpc' = [cbpc EXCEPT ![r] = "unlock"]
    /\ UNCHANGED <<io, phase, cmd, comp, aio_calls, aio_ret, lock, pollpc, req,
                   completions, conn, lib>>

\* pthread_mutex_unlock(&ch->lock)
FinishUnlock(r) ==
    /\ cbpc[r] = "unlock"
    /\ lock' = "free"
    /\ cbpc' = [cbpc EXCEPT ![r] = "done"]
    /\ UNCHANGED <<io, phase, cmd, comp, aio_calls, aio_ret, req_head, pollpc,
                   req, completions, conn, lib>>

(***************************************************************************)
(* The poller blockdev_rbd_io_poll, on the channel's owning core.          *)
(***************************************************************************)
\* req->status == 0 ? SPDK_BDEV_IO_STATUS_SUCCESS : SPDK_BDEV_IO_STATUS_FAILED
PollStatus(status) == IF status = 0 THEN "SUCCESS" ELSE "FAILED"

\* What a read of r's status field can give: its value once written.
ReadStatus(r) == IF "status" \in cmd[r].init THEN {cmd[r].status} ELSE {0, -1}

\* pthread_mutex_lock(&ch->lock)
PollLock ==
    /\ OwnerIdle
    /\ lock = "free"
    /\ lock' = "poller"
    /\ pollpc' = "load"
    /\ UNCHANGED <<io, phase, cmd, comp, aio_calls, aio_ret, cbpc, req_head, req,
                   completions, conn, lib>>

\* req = *req_head
PollLoad ==
    /\ pollpc = "load"
    /\ req' = req_head
    /\ pollpc' = "clear"
    /\ UNCHANGED <<io, phase, cmd, comp, aio_calls, aio_ret, cbpc, req_head, lock,
                   completions, conn, lib>>

\* Variant: the inbox head is left in place.
PollClearKeepsHead ==
    /\ pollpc = "clear"
    /\ pollpc' = "walk"
    /\ UNCHANGED <<io, phase, cmd, comp, aio_calls, aio_ret, cbpc, req_head, lock,
                   req, completions, conn, lib>>

\* *req_head = NULL
PollClear ==
    /\ pollpc = "clear"
    /\ req_head' = NULL
    /\ pollpc' = "walk"
    /\ UNCHANGED <<io, phase, cmd, comp, aio_calls, aio_ret, cbpc, lock, req,
                   completions, conn, lib>>

\* Variant: the rest of the detached list is forgotten after a delivery.
PollDeliverDropsRest ==
    /\ pollpc = "walk"
    /\ ~OwnerBusy
    /\ req # NULL
    /\ \E s \in ReadStatus(req) :
         Complete(req, PollStatus(s), "poller", "owner")
    /\ req' = NULL
    /\ UNCHANGED <<io, cmd, comp, aio_calls, aio_ret, cbpc, req_head, lock,
                   pollpc, conn, lib>>

\* One turn of the while loop.
PollDeliver ==
    /\ pollpc = "walk"
    /\ ~OwnerBusy
    /\ req # NULL
    /\ \E s \in ReadStatus(req) :
         Complete(req, PollStatus(s), "poller", "owner")
    /\ req' = cmd[req].next
    /\ UNCHANGED <<io, cmd, comp, aio_calls, aio_ret, cbpc, req_head, lock,
                   pollpc, conn, lib>>

\* The loop ends; pthread_mutex_unlock(&ch->lock)
PollUnlock ==
    /\ pollpc = "walk"
    /\ ~OwnerBusy
    /\ req = NULL
    /\ lock' = "free"
    /\ pollpc' = "idle"
    /\ UNCHANGED <<io, phase, cmd, comp, aio_calls, aio_ret, cbpc, req_head, req,
                   completions, conn, lib>>

(***************************************************************************)
(* Opening a backend connection: blockdev_rados_context_init and its two   *)
(* callers, blockdev_rbd_init (device init) and blockdev_rbd_create_cb     *)
(* (channel creation).  One action per backend call, with the branch that  *)
(* follows it.                                                             *)
(***************************************************************************)
Opens == 1..MaxOpens

NoConn == [caller |-> "none", pc |-> "idle", cluster |-> "none", shutdowns |-> 0,
           ioctx |-> "none", image |-> "none", dead_calls |-> 0,
           poller |-> FALSE, failed |-> {}, calls |-> <<>>, ret |-> 0]

ConnInit == conn = [k \in Opens |-> NoConn]

\* A backend call is made: it is logged, and counted when the cluster
\* session it goes to was already shut down.
BackendCall(c, name) ==
    [c EXCEPT !.calls = Append(@, name),
              !.dead_calls = IF c.cluster = "shutdown" THEN @ + 1 ELSE @]

\* The call `name' returned ret.
Returned(c, name, ret) ==
    IF ret < 0 THEN [c EXCEPT !.failed = @ \cup {name}] ELSE c

\* rados_shutdown(cluster)
rados_shutdown(c) ==
    [BackendCall(c, "rados_shutdown") EXCEPT !.cluster = "shutdown", !.shutdowns = @ + 1]

\* rados_ioctx_destroy(io_ctx)
rados_ioctx_destroy(c) ==
    [BackendCall(c, "rados_ioctx_destroy") EXCEPT !.ioctx = "destroyed"]

\* rbd_close(image)
rbd_close(c) ==
    [BackendCall(c, "rbd_close") EXCEPT !.image = "closed"]

\* The function returns ret to the framework.
Return(c, ret) == [c EXCEPT !.pc = "done", !.ret = ret]

\* The label err of blockdev_rbd_init.
InitErr(c) == Return(rados_shutdown(rados_ioctx_destroy(c)), -1)

\* The framework calls blockdev_rbd_init or blockdev_rbd_create_cb.
OpenStart(k) ==
    /\ conn[k].pc = "idle"
    /\ \A j \in Opens : j < k => conn[j].pc = "done"
    /\ \E f \in {"rbd_init", "create_cb"} :
         conn' = [conn EXCEPT ![k] = [@ EXCEPT !.caller = f, !.pc = "rados_create"]]
    /\ UNCHANGED <<ioVars, lib>>

\* ret = rados_create(cluster, NULL)
RadosCreate(k) ==
    /\ conn[k].pc = "rados_create"
    /\ \E ret \in CallReturns :
         LET c == Returned(BackendCall(conn[k], "rados_create"), "rados_create", ret) IN
           conn' = [conn EXCEPT ![k] =
                      IF ret < 0
                      THEN Return(c, -1)
                      ELSE [c EXCEPT !.cluster = "live", !.pc = "rados_conf_read_file"]]
    /\ UNCHANGED <<ioVars, lib>>

\* ret = rados_conf_read_file(*cluster, NULL)
RadosConfReadFile(k) ==
    /\ conn[k].pc = "rados_conf_read_file"
    /\ \E ret \in CallReturns :
         LET c == Returned(BackendCall(conn[k], "rados_conf_read_file"),
                           "rados_conf_read_file", ret) IN
           conn' = [conn EXCEPT ![k] =
                      IF ret < 0
                      THEN Return(rados_shutdown(c), -1)
                      ELSE [c EXCEPT !.pc = "rados_connect"]]
    /\ UNCHANGED <<ioVars, lib>>

\* What blockdev_rados_context_init does when rados_connect returned ret.
AfterConnect(c, ret) ==
    IF ret < 0
    THEN [rados_shutdown(c) EXCEPT !.pc = "rados_ioctx_create"]
    ELSE [c EXCEPT !.pc = "rados_ioctx_create"]

\* ret = rados_connect(*cluster)
RadosConnect(k) ==
    /\ conn[k].pc = "rados_connect"
    /\ \E ret \in CallReturns :
         LET c == Returned(BackendCall(conn[k], "rados_connect"), "rados_connect", ret) IN
           conn' = [conn EXCEPT ![k] = AfterConnect(c, ret)]
    /\ UNCHANGED <<ioVars, lib>>

\* ret = rados_ioctx_create(*cluster, rbd_pool_name, io_ctx).  On a session
\* that was shut down the call may return anything.
RadosIoctxCreate(k) ==
    /\ conn[k].pc = "rados_ioctx_create"
    /\ \E ret \in CallReturns :
         LET c == Returned(BackendCall(conn[k], "rados_ioctx_create"),
                           "rados_ioctx_create", ret) IN
           conn' = [conn EXCEPT ![k] =
                      IF ret < 0
                      THEN Return(rados_shutdown(c), -1)
                      ELSE [c EXCEPT !.ioctx = "live", !.pc = "rbd_open"]]
    /\ UNCHANGED <<ioVars, lib>>

\* What blockdev_rbd_create_cb does when rbd_open returned ret < 0.
CreateCbOpenFailed(c) == Return(c, -1)

\* ret = rbd_open(io_ctx, rbd_name, &image, NULL)
RbdOpen(k) ==
    /\ conn[k].pc = "rbd_open"
    /\ \E ret \in CallReturns :
         LET c == Returned(BackendCall(conn[k], "rbd_open"), "rbd_open", ret) IN
           conn' = [conn EXCEPT ![k] =
                      IF ret < 0
                      THEN IF c.caller = "rbd_init" THEN InitErr(c) ELSE CreateCbOpenFailed(c)
                      ELSE [c EXCEPT !.image = "open",
                                     !.pc = IF c.caller = "rbd_init"
                                            THEN "rbd_stat" ELSE "poller_register"]]
    /\ UNCHANGED <<ioVars, lib>>

\* blockdev_rbd_init: ret = rbd_stat(image, info, sizeof(*info)); rbd_close(image)
RbdStat(k) ==
    /\ conn[k].pc = "rbd_stat"
    /\ \E ret \in CallReturns :
         LET c == rbd_close(Returned(BackendCall(conn[k], "rbd_stat"), "rbd_stat", ret)) IN
           conn' = [conn EXCEPT ![k] = IF ret < 0 THEN InitErr(c) ELSE Return(c, 0)]
    /\ UNCHANGED <<ioVars, lib>>

\* blockdev_rbd_create_cb: pthread_mutex_init, spdk_poller_register, return 0
PollerRegister(k) ==
    /\ conn[k].pc = "poller_register"
    /\ conn' = [conn EXCEPT ![k] = Return([@ EXCEPT !.poller = TRUE], 0)]
    /\ UNCHANGED <<ioVars, lib>>

(***************************************************************************)
(* Destroying a channel: blockdev_rbd_destroy_cb, which the framework      *)
(* calls for a channel that blockdev_rbd_create_cb created.  One action    *)
(* per statement.                                                          *)
(***************************************************************************)
\* rbd_flush(image)
rbd_flush(c) == BackendCall(c, "rbd_flush")

\* blockdev_rbd_exit(image)
blockdev_rbd_exit(c) == rbd_close(rbd_flush(c))

\* spdk_poller_unregister(&io_channel->poller, NULL)
spdk_poller_unregister(c) ==
    [c EXCEPT !.calls = Append(@, "spdk_poller_unregister"), !.poller = FALSE]

\* if (io_channel->image) blockdev_rbd_exit(io_channel->image)
DestroyImage(k) ==
    /\ conn[k].caller = "create_cb"
    /\ conn[k].pc = "done"
    /\ conn[k].ret = 0
    /\ conn' = [conn EXCEPT ![k] =
                  [(IF @.image # "none" THEN blockdev_rbd_exit(@) ELSE @)
                     EXCEPT !.pc = "destroy_ioctx"]]
    /\ UNCHANGED <<ioVars, lib>>

\* if (io_channel->io_ctx) rados_ioctx_destroy(io_channel->io_ctx)
DestroyIoctx(k) ==
    /\ conn[k].pc = "destroy_ioctx"
    /\ conn' = [conn EXCEPT ![k] =
                  [(IF @.ioctx # "none" THEN rados_ioctx_destroy(@) ELSE @)
                     EXCEPT !.pc = "destroy_cluster"]]
    /\ UNCHANGED <<ioVars, lib>>

\* if (io_channel->cluster) rados_shutdown(io_channel->cluster)
DestroyCluster(k) ==
    /\ conn[k].pc = "destroy_cluster"
    /\ conn' = [conn EXCEPT ![k] =
                  [(IF @.cluster # "none" THEN rados_shutdown(@) ELSE @)
                     EXCEPT !.pc = "poller_unregister"]]
    /\ UNCHANGED <<ioVars, lib>>

\* spdk_poller_unregister(&io_channel->poller, NULL), the last statement
PollerUnregister(k) ==
    /\ conn[k].pc = "poller_unregister"
    /\ conn' = [conn EXCEPT ![k] = [spdk_poller_unregister(@) EXCEPT !.pc = "destroyed"]]
    /\ UNCHANGED <<ioVars, lib>>

(***************************************************************************)
(* The bdev module: blockdev_rbd_library_init reads the entries of the     *)
(* "Ceph" section one by one and creates a device for each;                *)
(* blockdev_rbd_library_fini empties g_rbds and g_rbd_pools.  A device     *)
(* record (struct blockdev_rbd) is named by the index of its entry.        *)
(***************************************************************************)
Entries == 1..NumEntries

\* Texts of the third value of an entry, as strtol reads them.
BlockSizeTexts ==
    { <<"5", "1", "2">>, <<"4", "0", "9", "6">>, <<"5", "1", "1">>,
      <<"1", "0", "2", "3">>, <<"0">>, <<"a", "b", "c">>,
      <<"-", "5", "1", "2">>, <<"-", "1">> }

\* What the backend does when blockdev_rbd_init opens the volume of an entry.
Backends == {"ok", "connect_fails", "open_fails"}

\* info.size, the byte size rbd_stat reports.
ImageSizes == {1048576, 5000}

\* An entry of the section.  A value that spdk_conf_section_get_nmval finds
\* is a one-element sequence, a value it does not find (NULL) is <<>>.
ConfEntries ==
    { [pool |-> <<>>, rbd_name |-> <<>>, block_size |-> <<>>, backend |-> "ok",
       size |-> 5000],
      [pool |-> <<"rbd">>, rbd_name |-> <<>>, block_size |-> <<>>, backend |-> "ok",
       size |-> 5000] }
    \cup
    [pool : {<<"rbd">>}, rbd_name : {<<"vol">>},
     block_size : {<<>>} \cup {<<t>> : t \in BlockSizeTexts},
     backend : Backends, size : ImageSizes]

\* The sections with n entries.
Confs(n) == [1..n -> ConfEntries]

Digits == <<"0", "1", "2", "3", "4", "5", "6", "7", "8", "9">>

IsDigit(c) == \E d \in 1..Len(Digits) : Digits[d] = c

DigitValue(c) == (CHOOSE d \in 1..Len(Digits) : Digits[d] = c) - 1

RECURSIVE StrtolDigits(_, _)
StrtolDigits(s, acc) ==
    IF s = <<>> \/ ~IsDigit(Head(s))
    THEN acc
    ELSE StrtolDigits(Tail(s), acc * 10 + DigitValue(Head(s)))

\* strtol(val, NULL, 10): an optional sign, then the leading decimal digits;
\* 0 when there are none.
strtol(s) ==
    IF s # <<>> /\ Head(s) = "-"
    THEN 0 - StrtolDigits(Tail(s), 0)
    ELSE StrtolDigits(s, 0)

\* uint32_t block_size = (int)v: the value modulo 2^32, as two 16-bit limbs
\* <<high, low>>.
Uint32(v) == <<(v \div LimbBase) % LimbBase, v % LimbBase>>

\* block_size & 0x1ff
Low9Bits(u) == u[2] % 512

\* The block size of entry e, and whether the validation lets it pass.
BlockSizeOf(e) ==
    IF e.block_size = <<>>
    THEN Uint32(DefaultBlockSize)
    ELSE Uint32(strtol(e.block_size[1]))

BlockSizeRejected(e) == e.block_size # <<>> /\ Low9Bits(BlockSizeOf(e)) # 0

\* disk->info.size / disk->disk.blocklen, for a size below 2^31.  A division
\* by zero traps on some machines and yields 0 on others.
BlockCount(size, u) ==
    IF u = <<0, 0>>
    THEN {[trap |-> TRUE, blockcnt |-> 0], [trap |-> FALSE, blockcnt |-> 0]}
    ELSE {[trap |-> FALSE,
           blockcnt |-> IF u[1] >= LimbBase \div 2
                        THEN 0
                        ELSE size \div (u[1] * LimbBase + u[2])]}

\* What blockdev_rbd_init returns.  After a failed rados_connect the function
\* goes on with a session that was shut down, so it may return either way.
InitReturns(backend) ==
    CASE backend = "ok" -> {0}
      [] backend = "open_fails" -> {-1}
      [] backend = "connect_fails" -> CallReturns

NoDisk == [name |-> -1, blocklen |-> <<0, 0>>, blockcnt |-> 0]

\* The module before blockdev_rbd_library_init, with the section `conf'.
LibOf(section, conf) ==
    [pc |-> "start", section |-> section, conf |-> conf, i |-> 1,
     g_rbds |-> <<>>, g_rbd_pools |-> <<>>, heap |-> {}, freed |-> {},
     registered |-> {}, disk |-> [d \in Entries |-> NoDisk],
     blockdev_rbd_count |-> 0, ret |-> 0]

NoLib == LibOf(FALSE, <<>>)

LibInit ==
    \/ lib = NoLib
    \/ \E n \in 0..NumEntries : \E c \in Confs(n) : lib = LibOf(TRUE, c)

SeqRange(s) == {s[j] : j \in 1..Len(s)}

\* blockdev_rbd_pool_info_init(rbd_pool_name)
blockdev_rbd_pool_info_init(l, name) ==
    IF name \in SeqRange(l.g_rbd_pools)
    THEN l
    ELSE [l EXCEPT !.g_rbd_pools = Append(@, name)]

\* blockdev_rbd_library_fini(): every record of g_rbds is removed and freed,
\* then every pool of g_rbd_pools.
blockdev_rbd_library_fini(l) ==
    [l EXCEPT !.heap = @ \ SeqRange(l.g_rbds),
              !.freed = @ \cup SeqRange(l.g_rbds),
              !.g_rbds = <<>>,
              !.g_rbd_pools = <<>>]

\* The label cleanup of blockdev_rbd_library_init.
Cleanup(l) == [blockdev_rbd_library_fini(l) EXCEPT !.pc = "done", !.ret = -1]

\* blockdev_create_rbd_disk(disk, block_size), with the quotient q.
blockdev_create_rbd_disk(l, d, block_size, q) ==
    [l EXCEPT !.disk[d] = [name |-> l.blockdev_rbd_count, blocklen |-> block_size,
                           blockcnt |-> q],
              !.blockdev_rbd_count = @ + 1]

\* TAILQ_INSERT_TAIL(&g_rbds, ...); spdk_io_device_register; spdk_bdev_register
RegisterDisk(l, d) ==
    [l EXCEPT !.g_rbds = Append(@, d), !.registered = @ \cup {d}, !.i = @ + 1]

\* sp = spdk_conf_find_section(NULL, "Ceph")
LibraryInitStart ==
    /\ lib.pc = "start"
    /\ lib' = IF lib.section
              THEN [lib EXCEPT !.pc = "loop"]
              ELSE [lib EXCEPT !.pc = "done", !.ret = 0]
    /\ UNCHANGED <<ioVars, conn>>

\* One turn of the loop, for an entry that the section has.
LibraryInitEntry ==
    /\ lib.pc = "loop"
    /\ lib.i <= Len(lib.conf)
    /\ LET d == lib.i
           e == lib.conf[d]
           pooled == IF e.pool = <<>> THEN lib
                     ELSE blockdev_rbd_pool_info_init(lib, e.pool[1])
           allocated == [pooled EXCEPT !.heap = @ \cup {d}]
       IN  IF e.pool = <<>> \/ e.rbd_name = <<>> \/ BlockSizeRejected(e)
           THEN lib' = Cleanup(pooled)
           ELSE \E ret \in InitReturns(e.backend) :
                  IF ret < 0
                  THEN lib' = Cleanup(allocated)
                  ELSE \E q \in BlockCount(e.size, BlockSizeOf(e)) :
                         lib' = IF q.trap
                                THEN [allocated EXCEPT !.pc = "trapped"]
                                ELSE RegisterDisk(
                                       blockdev_create_rbd_disk(allocated, d,
                                           BlockSizeOf(e), q.blockcnt), d)
    /\ UNCHANGED <<ioVars, conn>>

\* spdk_conf_section_get_nval finds no further entry: break, return 0.
LibraryInitEnd ==
    /\ lib.pc = "loop"
    /\ lib.i > Len(lib.conf)
    /\ lib' = [lib EXCEPT !.pc = "done", !.ret = 0]
    /\ UNCHANGED <<ioVars, conn>>

Init ==
    /\ IoInit
    /\ ConnInit
    /\ lib = NoLib

InitLibrary ==
    /\ IoInit
    /\ ConnInit
    /\ LibInit

LibraryNext ==
    \/ LibraryInitStart
    \/ LibraryInitEntry
    \/ LibraryInitEnd

SpecLibrary == InitLibrary /\ [][LibraryNext]_vars

ConnNext ==
    \/ \E k \in Opens : OpenStart(k)
    \/ \E k \in Opens : RadosCreate(k)
    \/ \E k \in Opens : RadosConfReadFile(k)
    \/ \E k \in Opens : RadosConnect(k)
    \/ \E k \in Opens : RadosIoctxCreate(k)
    \/ \E k \in Opens : RbdOpen(k)
    \/ \E k \in Opens : RbdStat(k)
    \/ \E k \in Opens : PollerRegister(k)
    \/ \E k \in Opens : DestroyImage(k)
    \/ \E k \in Opens : DestroyIoctx(k)
    \/ \E k \in Opens : DestroyCluster(k)
    \/ \E k \in Opens : PollerUnregister(k)

SpecConn == Init /\ [][ConnNext]_vars

Next ==
    \/ \E r \in Reqs : NewIo(r)
    \/ \E r \in Reqs : SubmitRead(r)
    \/ \E r \in Reqs : SubmitWrite(r)
    \/ \E r \in Reqs : SubmitOther(r)
    \/ \E r \in Reqs : Reclaim(r)
    \/ \E r \in Reqs : FinishClassify(r)
    \/ \E r \in Reqs : FinishRelease(r)
    \/ \E r \in Reqs : FinishLock(r)
    \/ \E r \in Reqs : FinishLink(r)
    \/ \E r \in Reqs : FinishPush(r)
    \/ \E r \in Reqs : FinishUnlock(r)
    \/ PollLock
    \/ PollLoad
    \/ PollClear
    \/ PollDeliver
    \/ PollUnlock

Spec == Init /\ [][Next]_vars

(***************************************************************************)
(* The life of one channel: blockdev_rbd_create_cb opens its connection    *)
(* and registers the poller, requests are submitted and delivered while    *)
(* the channel is up, and blockdev_rbd_destroy_cb runs on the owning core  *)
(* between two of its other activities.  librbd's threads run the          *)
(* completion callback whenever an operation finishes, until the channel   *)
(* is gone.                                                                *)
(***************************************************************************)
\* The connection that belongs to the channel.
Channel == 1

ChannelUp ==
    /\ conn[Channel].caller = "create_cb"
    /\ conn[Channel].pc = "done"
    /\ conn[Channel].ret = 0

ChannelDestroyed == conn[Channel].pc = "destroyed"

\* A step of blockdev_rbd_create_cb for the channel.
ChannelOpen ==
    \/ OpenStart(Channel)
    \/ RadosCreate(Channel)
    \/ RadosConfReadFile(Channel)
    \/ RadosConnect(Channel)
    \/ RadosIoctxCreate(Channel)
    \/ RbdOpen(Channel)
    \/ RbdStat(Channel)
    \/ PollerRegister(Channel)

ChannelNext ==
    \/ ChannelOpen
    \/ \E r \in Reqs : ChannelUp /\ NewIo(r)
    \/ \E r \in Reqs : ChannelUp /\ SubmitRead(r)
    \/ \E r \in Reqs : ChannelUp /\ SubmitWrite(r)
    \/ \E r \in Reqs : ChannelUp /\ SubmitOther(r)
    \/ \E r \in Reqs : ChannelUp /\ Reclaim(r)
    \/ ChannelUp /\ PollLock
    \/ ChannelUp /\ PollLoad
    \/ ChannelUp /\ PollClear
    \/ ChannelUp /\ PollDeliver
    \/ ChannelUp /\ PollUnlock
    \/ \E r \in Reqs : ~ChannelDestroyed /\ FinishClassify(r)
    \/ \E r \in Reqs : ~ChannelDestroyed /\ FinishRelease(r)
    \/ \E r \in Reqs : ~ChannelDestroyed /\ FinishLock(r)
    \/ \E r \in Reqs : ~ChannelDestroyed /\ FinishLink(r)
    \/ \E r \in Reqs : ~ChannelDestroyed /\ FinishPush(r)
    \/ \E r \in Reqs : ~ChannelDestroyed /\ FinishUnlock(r)
    \/ OwnerIdle /\ DestroyImage(Channel)
    \/ DestroyIoctx(Channel)
    \/ DestroyCluster(Channel)
    \/ PollerUnregister(Channel)

SpecChannel == Init /\ [][ChannelNext]_vars

(***************************************************************************)
(* Scheduling.  The owning core runs a started submission to its end and   *)
(* calls the registered poller again and again; a librbd thread that has   *)
(* entered the callback keeps running, and pthread_mutex_lock returns once *)
(* the mutex is free often enough.  Nothing makes the backend finish an    *)
(* operation: FinishClassify, the entry of the callback, is not fair.      *)
(***************************************************************************)
OwnerStep ==
    \/ \E r \in Reqs : SubmitRead(r) \/ SubmitWrite(r) \/ SubmitOther(r) \/ Reclaim(r)
    \/ PollLock \/ PollLoad \/ PollClear \/ PollDeliver \/ PollUnlock

CallbackStep ==
    \E r \in Reqs :
        FinishRelease(r) \/ FinishLock(r) \/ FinishLink(r) \/ FinishPush(r) \/ FinishUnlock(r)

Fairness == WF_vars(OwnerStep) /\ SF_vars(CallbackStep)

FairSpec == Init /\ [][Next]_vars /\ Fairness

\* r was completed once, by the poller, and the framework took it back.
DeliveredByPoller(r) ==
    /\ Len(completions[r]) = 1
    /\ completions[r][1].by = "poller"
    /\ phase[r] = "reclaimed"

\* C2: no completion is lost.  With the poller invoked again and again,
\* every request that was issued to the backend and whose completion callback
\* has started is eventually delivered to the framework by the poller, also
\* when the callback runs while the poller is draining.
C2_NoCompletionLost ==
    \A r \in Reqs : (cbpc[r] \notin {"none", "pending"}) ~> DeliveredByPoller(r)

(***************************************************************************)
(* Properties.                                                             *)
(***************************************************************************)
RECURSIVE ChainFrom(_, _)
\* The requests linked from pointer p, following cmd->next at most n times.
ChainFrom(p, n) ==
    IF p = NULL \/ n = 0 THEN {} ELSE {p} \cup ChainFrom(cmd[p].next, n - 1)

\* The requests on the channel's inbox list.
Inbox == ChainFrom(req_head, NumReqs)

\* The requests on the list the poller has taken and not yet delivered.
Detached == IF pollpc \in {"clear", "walk"} THEN ChainFrom(req, NumReqs) ELSE {}

\* The callback of r has put r on the inbox.
Pushed(r) == cbpc[r] \in {"unlock", "done"}

\* r was just completed: the framework has not taken the request back yet.
JustCompleted(r) == phase[r] = "completed" /\ Len(completions[r]) >= 1

LastCompletion(r) == completions[r][Len(completions[r])]

FailedOnSubmit(by) == [status |-> "FAILED", by |-> by, thread |-> "owner"]

\* A request that blockdev_rbd_submit_request failed before any backend call
\* stays that way: one completion, nothing at the backend, no callback.
RejectedForGood(r) ==
    (/\ completions[r] # <<>>
     /\ completions[r][1].by = "submit_request"
     /\ comp[r].failed = "none") =>
      /\ Len(completions[r]) = 1
      /\ comp[r].created = 0
      /\ aio_calls[r] = 0
      /\ cbpc[r] = "none"
      /\ r \notin Inbox \cup Detached

\* C1: under every interleaving of callbacks and poller runs, a request
\* pushed onto the inbox is given to spdk_bdev_io_complete at most once, only
\* after its callback wrote cmd->status and pushed it, with the status that
\* was written; and a pushed request is either still held (on the inbox or on
\* the poller's detached list) or has been delivered, never both or neither.
C1_DeliveredOnceAfterFinal ==
    \A r \in Reqs :
      /\ Len(completions[r]) <= 1
      /\ (JustCompleted(r) /\ LastCompletion(r).by = "poller") =>
           /\ "status" \in cmd[r].init
           /\ Pushed(r)
           /\ LastCompletion(r).status = (IF cmd[r].status = 0 THEN "SUCCESS" ELSE "FAILED")
      /\ Pushed(r) => ((r \in Inbox \cup Detached) # (Len(completions[r]) = 1))

\* A request is delivered by the poller while another request's callback is
\* between classification and push.
C1_Witness ==
    \E r, q \in Reqs :
      /\ r # q
      /\ JustCompleted(r) /\ LastCompletion(r).by = "poller"
      /\ cbpc[q] \in {"release", "lock"}

\* One request was delivered by the poller and taken back; the callback of
\* another is waiting for ch->lock while the poller is inside a later drain.
C2_Witness ==
    \E r, q \in Reqs :
      /\ r # q
      /\ DeliveredByPoller(r)
      /\ pollpc \in {"load", "clear", "walk"}
      /\ cbpc[q] = "lock"

\* C3: for every submitted read, the status the poller delivers is success
\* if and only if the value the backend returned equals the expected length
\* (nbytes, a size_t); every other value, negative ones included, gives failed.
C3_ReadSuccessIffLengthReturned ==
    \A r \in Reqs :
      (JustCompleted(r) /\ io[r].type = "READ" /\ LastCompletion(r).by = "poller") =>
        ((LastCompletion(r).status = "SUCCESS")
           <=> EqualsLength(aio_ret[r][1], io[r].params.nbytes))

\* C4: for every write that reached the backend, the status the poller
\* delivers is success if and only if the backend's returned status is 0.
C4_WriteSuccessIffZero ==
    \A r \in Reqs :
      (JustCompleted(r) /\ io[r].type = "WRITE" /\ LastCompletion(r).by = "poller") =>
        ((LastCompletion(r).status = "SUCCESS") <=> (aio_ret[r][1] = 0))

\* A write for which the backend returned a positive status was delivered.
C4_Witness ==
    \E r \in Reqs :
      /\ JustCompleted(r) /\ io[r].type = "WRITE" /\ LastCompletion(r).by = "poller"
      /\ aio_ret[r][1] > 0
      /\ LastCompletion(r).status = "FAILED"

\* C5: the callback never calls spdk_bdev_io_complete; it classifies,
\* releases the completion handle and links the request under ch->lock.
\* Every completion is made on the channel's owning core, none on a backend
\* thread.
C5_CompletionsOnOwner ==
    \A r \in Reqs :
      /\ \A i \in 1..Len(completions[r]) :
           /\ completions[r][i].thread = "owner"
           /\ completions[r][i].by \in {"poller", "get_rbuf_cb", "submit_request"}
      /\ cbpc[r] \in {"link", "push", "unlock"} => lock = "callback"
      /\ cbpc[r] \in {"lock", "link", "push", "unlock", "done"} =>
           /\ "status" \in cmd[r].init \/ phase[r] = "reclaimed"
           /\ comp[r].released = 1
      /\ (cbpc[r] \notin {"none", "pending"} /\ Len(completions[r]) = 1) => Pushed(r)

\* A callback has run to its end and its request was then delivered by the
\* poller on the owning core.
C5_Witness ==
    \E r \in Reqs :
      /\ cbpc[r] = "done"
      /\ JustCompleted(r)
      /\ LastCompletion(r).by = "poller" /\ LastCompletion(r).thread = "owner"

\* C6: the poller releases ch->lock before it walks the detached list, so
\* while it is delivering, a callback that wants to push is not kept waiting
\* for the lock by the poller.
C6_DeliveryDoesNotBlockPush ==
    \A r \in Reqs :
      (pollpc = "walk" /\ req # NULL /\ cbpc[r] = "lock") => lock # "poller"

\* C7: a write whose segment count is not 1, or whose segment length differs
\* from the requested length, is rejected at submission: no completion object
\* is created, no async call is issued, its callback never runs and it never
\* reaches the inbox, and the framework gets exactly one failed completion,
\* from blockdev_rbd_submit_request.
C7_BadWriteRejected ==
    \A r \in Reqs :
      /\ RejectedForGood(r)
      /\ (/\ io[r].type = "WRITE"
          /\ phase[r] # "queued"
          /\ io[r].params.iovcnt # 1 \/ io[r].params.iov_len # io[r].params.len) =>
           /\ phase[r] = "completed"
           /\ comp[r].created = 0
           /\ comp[r].failed = "none"
           /\ aio_calls[r] = 0
           /\ cbpc[r] = "none"
           /\ r \notin Inbox \cup Detached
           /\ completions[r] = <<FailedOnSubmit("submit_request")>>

\* A write with two segments was failed at submission.
C7_Witness ==
    \E r \in Reqs :
      /\ io[r].type = "WRITE" /\ io[r].params.iovcnt = 2
      /\ completions[r] = <<FailedOnSubmit("submit_request")>>

\* C8: when rbd_aio_create_completion fails or the async call fails to
\* issue, the submission fails at once (the request is never in flight), a
\* completion object that was created is released exactly once, no callback
\* runs for the request, and the framework gets exactly one failed
\* completion, from the submit path and never from the poller as well.
C8_IssueFailureFailsOnce ==
    \A r \in Reqs :
      comp[r].failed # "none" =>
        /\ phase[r] \in {"completed", "reclaimed"}
        /\ comp[r].created = (IF comp[r].failed = "create" THEN 0 ELSE 1)
        /\ comp[r].released = comp[r].created
        /\ aio_calls[r] = comp[r].created
        /\ cbpc[r] = "none"
        /\ r \notin Inbox \cup Detached
        /\ Len(completions[r]) = 1
        /\ completions[r][1] \in {FailedOnSubmit("get_rbuf_cb"), FailedOnSubmit("submit_request")}

\* A read whose rbd_aio_read failed to issue was failed by the submit path,
\* its completion object released.
C8_Witness ==
    \E r \in Reqs :
      /\ comp[r].failed = "issue"
      /\ io[r].type = "READ"
      /\ comp[r].released = 1
      /\ completions[r] = <<FailedOnSubmit("get_rbuf_cb")>>

\* C9: io_type_supported is true exactly for read and write, and a request
\* of any other type makes no backend call and gets exactly one failed
\* completion at submission.
C9_OnlyReadWriteSupported ==
    /\ \A t \in IoTypes : blockdev_rbd_io_type_supported(t) <=> t \in {"READ", "WRITE"}
    /\ \A r \in Reqs : RejectedForGood(r)
    /\ \A r \in Reqs :
         (io[r].type \in IoTypes \ {"READ", "WRITE"} /\ phase[r] # "queued") =>
           /\ phase[r] = "completed"
           /\ comp[r].created = 0
           /\ aio_calls[r] = 0
           /\ cbpc[r] = "none"
           /\ completions[r] = <<FailedOnSubmit("submit_request")>>

\* An UNMAP request was failed at submission.
C9_Witness ==
    \E r \in Reqs :
      /\ io[r].type = "UNMAP"
      /\ completions[r] = <<FailedOnSubmit("submit_request")>>

\* C10: opening a backend connection calls rados_create,
\* rados_conf_read_file, rados_connect, rados_ioctx_create and rbd_open in
\* that order, and when one of these steps fails the function returns an
\* error and holds no cluster session, pool context or volume handle.
C10_FailedOpenReleasesAll ==
    \A k \in Opens :
      (/\ conn[k].pc = "done"
       /\ conn[k].failed \cap {"rados_create", "rados_conf_read_file", "rados_connect",
                               "rados_ioctx_create", "rbd_open"} # {}) =>
        /\ conn[k].ret < 0
        /\ conn[k].cluster # "live"
        /\ conn[k].ioctx # "live"
        /\ conn[k].image # "open"


(***************************************************************************)
(* Properties of the bdev module (SpecLibrary).                            *)
(***************************************************************************)
\* The entries the loop has dealt with.
Processed ==
    {d \in 1..Len(lib.conf) : d < lib.i \/ (d = lib.i /\ lib.pc \in {"done", "trapped"})}

\* Entry e is well formed: pool and volume are named and the block size is
\* absent or a positive multiple of 512.
WellFormed(e) ==
    /\ e.pool # <<>>
    /\ e.rbd_name # <<>>
    /\ e.block_size # <<>> => /\ strtol(e.block_size[1]) > 0
                              /\ strtol(e.block_size[1]) % 512 = 0

\* A record of g_rbds that is registered with the framework and allocated.
Created(d) ==
    /\ d \in lib.registered
    /\ d \in lib.heap
    /\ d \in SeqRange(lib.g_rbds)

\* C11: when the backend connection fails during the initialization of one
\* configured device, that device is not registered and no record of it
\* exists, and every other configured device, before or after it, whose own
\* initialization succeeds is created and registered.
C11_ConnectFailureSkipsDevice ==
    (/\ lib.pc = "done"
     /\ \A d \in 1..Len(lib.conf) :
          WellFormed(lib.conf[d]) /\ lib.conf[d].backend \in {"ok", "connect_fails"})
    => \A d \in 1..Len(lib.conf) :
         IF lib.conf[d].backend = "connect_fails"
         THEN d \notin lib.registered /\ d \notin lib.heap
         ELSE Created(d)

\* q is size / u for the 32-bit divisor u, written without the division.
IsQuotient(q, size, u) ==
    /\ u # <<0, 0>>
    /\ IF u[1] >= LimbBase \div 2
       THEN q = 0
       ELSE LET b == u[1] * LimbBase + u[2] IN q * b <= size /\ size < (q + 1) * b

\* C12: an entry without a block size gets 512; a block size that is given is
\* accepted exactly when it is a multiple of 512; a rejected value never
\* produces a device; and the block count of a device is the byte size of
\* its volume divided by its block size.
C12_BlockSizeValidated ==
    /\ lib.pc # "trapped"
    /\ \A d \in Processed :
         LET e == lib.conf[d] IN
           (e.pool # <<>> /\ e.rbd_name # <<>>) =>
             /\ e.block_size # <<>> =>
                  ((d \in lib.heap \cup lib.freed) <=> (strtol(e.block_size[1]) % 512 = 0))
             /\ d \in lib.registered =>
                  /\ e.block_size = <<>> => lib.disk[d].blocklen = <<0, 512>>
                  /\ e.block_size # <<>> => strtol(e.block_size[1]) % 512 = 0
                  /\ IsQuotient(lib.disk[d].blockcnt, e.size, lib.disk[d].blocklen)

\* C18: a registered device record stays allocated and in g_rbds as long as
\* it is registered, also when a later entry fails; and when
\* blockdev_rbd_library_init has returned, no device record is allocated
\* outside g_rbds.
C18_RegisteredRecordsStay ==
    /\ \A d \in lib.registered : d \in lib.heap /\ d \in SeqRange(lib.g_rbds)
    /\ lib.pc = "done" => lib.heap \subseteq SeqRange(lib.g_rbds)

\* C20: a block size that passes the validation is strictly positive, so
\* the block count is never computed by a division by zero.
C20_AcceptedBlockSizePositive ==
    /\ lib.pc # "trapped"
    /\ \A d \in Processed :
         d \in lib.heap \cup lib.freed => BlockSizeOf(lib.conf[d]) # <<0, 0>>


(***************************************************************************)
(* Properties of opening and destroying connections (SpecConn).            *)
(***************************************************************************)
\* C13: blockdev_rbd_init holds nothing when it has returned, on the
\* success path too: the volume is closed, the pool context destroyed and
\* the cluster session shut down.
C13_InitTearsDownThrowaway ==
    \A k \in Opens :
      (conn[k].caller = "rbd_init" /\ conn[k].pc = "done") =>
        /\ conn[k].image # "open"
        /\ conn[k].ioctx # "live"
        /\ conn[k].cluster # "live"

\* C14: in every destroy of a channel the poller is unregistered before any
\* teardown step of the connection: while the poller is registered, no
\* flush, close, pool-context destroy or shutdown of the destroy was made.
C14_PollerUnregisteredFirst ==
    \A k \in Opens :
      conn[k].poller =>
        /\ {"rbd_flush", "rbd_close", "rados_ioctx_destroy"}
              \cap SeqRange(conn[k].calls) = {}
        /\ conn[k].pc # "poller_unregister"

\* The call of blockdev_rados_context_init of c is running or has just
\* returned.
InContextInit(c) ==
    \/ c.pc \in {"rados_create", "rados_conf_read_file", "rados_connect",
                 "rados_ioctx_create", "rbd_open"}
    \/ c.pc = "done" /\ "rbd_open" \notin SeqRange(c.calls)

\* C19: within one call of blockdev_rados_context_init the cluster session
\* is shut down at most once and no backend call is made on it after the
\* shutdown; after a failed rados_connect no further backend call is made
\* and the function returns an error.
C19_ShutdownOnceNoCallAfter ==
    \A k \in Opens :
      InContextInit(conn[k]) =>
        /\ conn[k].shutdowns <= 1
        /\ conn[k].dead_calls = 0
        /\ "rados_connect" \in conn[k].failed =>
             /\ conn[k].pc = "done"
             /\ conn[k].ret < 0
             /\ "rados_ioctx_create" \notin SeqRange(conn[k].calls)


(***************************************************************************)
(* Properties of the life of a channel (SpecChannel).                      *)
(***************************************************************************)
\* C15: a channel destroyed while a request is on its inbox is reported as
\* a lifecycle violation: a request the callback pushed is never left
\* undelivered by a destroy that reported no error.
C15_InboxAtDestroyReported ==
    \A r \in Reqs :
      (/\ conn[Channel].pc \in {"destroy_ioctx", "destroy_cluster",
                                "poller_unregister", "destroyed"}
       /\ Pushed(r)
       /\ completions[r] = <<>>)
      => conn[Channel].failed # {}


(***************************************************************************)
(* Who completes a request, and when a request is linked (Spec).           *)
(***************************************************************************)
\* C16 as stated: spdk_bdev_io_complete is called only by the poller, also
\* for the operations that fail at submission.
C16_OnlyPollerCompletes ==
    \A r \in Reqs :
      \A i \in 1..Len(completions[r]) : completions[r][i].by = "poller"

\* C16: spdk_bdev_io_complete is called only on the poller's execution
\* context, the owning core: by the poller for an operation the backend
\* accepted, and by the submission path (blockdev_rbd_get_rbuf_cb or
\* blockdev_rbd_submit_request), with status FAILED, only for an operation
\* that failed at submission and has no callback.
C16_PollerOrSubmissionFailure ==
    \A r \in Reqs :
      \A i \in 1..Len(completions[r]) :
        LET k == completions[r][i] IN
          /\ k.thread = "owner"
          /\ \/ k.by = "poller" /\ cbpc[r] = "done"
             \/ /\ k.by \in {"get_rbuf_cb", "submit_request"}
                /\ k.status = "FAILED"
                /\ cbpc[r] = "none"
                /\ r \notin Inbox \cup Detached

\* One request was failed by the submission path and another was delivered
\* by the poller.
C16_Witness ==
    \E r, q \in Reqs :
      /\ Len(completions[r]) = 1
      /\ completions[r][1].by \in {"get_rbuf_cb", "submit_request"}
      /\ Len(completions[q]) = 1
      /\ completions[q][1].by = "poller"

\* The callback of r has written cmd->status.
Finalized(r) == cbpc[r] \notin {"none", "pending"}

\* C17 as stated: at every step, a request is on the inbox list exactly when
\* the callback has finalized its status and it was not delivered yet.
C17_OnInboxIffFinalizedUndelivered ==
    \A r \in Reqs :
      (r \in Inbox) <=> (Finalized(r) /\ completions[r] = <<>>)

\* C17: at every step, a request is linked, on the inbox list or on the
\* list the poller has detached from it, exactly when its callback has
\* pushed it and it was not delivered yet; and a linked request has its
\* status finalized.
C17_LinkedIffPushedUndelivered ==
    \A r \in Reqs :
      /\ (r \in Inbox \cup Detached) <=> (Pushed(r) /\ completions[r] = <<>>)
      /\ r \in Inbox \cup Detached => Finalized(r) /\ "status" \in cmd[r].init

\* One request is on the list the poller has detached while another one,
\* whose status is final, is not linked yet.
C17_Witness ==
    \E r, q \in Reqs :
      /\ r \in Detached
      /\ completions[r] = <<>>
      /\ cbpc[q] \in {"release", "lock", "link", "push"}
      /\ q \notin Inbox \cup Detached

====
